---- MODULE Spec2Model ----
(***************************************************************************)
(* SafeGuard browser client: the login form (login.js), the signup form    *)
(* (signup.js), the dashboard's add-contact form (dashboard script) and    *)
(* the shared Utils class (utils.js), as one event-driven state machine.   *)
(*                                                                         *)
(* Strings the code inspects character by character (field values) are     *)
(* tuples of one-character strings; messages the code only passes on are   *)
(* TLA+ strings.                                                           *)
(***************************************************************************)
EXTENDS Integers, Sequences, FiniteSets, TLC

VARIABLES
    page,                  \* the document loaded: "login", "signup", "dashboard"
    inputs,                \* field name -> current value of the input element
    validationErrors,      \* signup.js: let validationErrors
    passwordStrengthScore, \* signup.js: let passwordStrengthScore
    passwordRequirements,  \* signup.js: let passwordRequirements
    errorShown,            \* field name -> error text visible under the field
    btnDisabled,           \* .disabled of the page's submit button
    pending,               \* requests in flight, in issue order
    toasts,                \* Utils.showToast calls made by the latest step
    store,                 \* localStorage: key -> value, for the keys present
    redirectScheduled,     \* a setTimeout(... 'dashboard.html') is waiting
    modalOpen,             \* dashboard: #addContactModal is not hidden
    contactsList,          \* dashboard: what #contactsList renders
    activityList           \* dashboard: what #activityList renders

vars == <<page, inputs, validationErrors, passwordStrengthScore,
          passwordRequirements, errorShown, btnDisabled, pending, toasts,
          store, redirectScheduled, modalOpen, contactsList, activityList>>

(***************************************************************************)
(* Bounds                                                                  *)
(***************************************************************************)
\* requests that a handler may add to those in flight: under Spec, under
\* SpecForms, under SpecDashboard, under SpecContacts
MaxInFlight == 2
FormsInFlight == 1
DashInFlight == 1
ContactsInFlight == 1
OverlapInFlight == 3

(***************************************************************************)
(* Characters and the string functions the code uses                       *)
(***************************************************************************)
Upper == {"A","B","C","D","E","F","G","H","I","J","K","L","M",
          "N","O","P","Q","R","S","T","U","V","W","X","Y","Z"}
Lower == {"a","b","c","d","e","f","g","h","i","j","k","l","m",
          "n","o","p","q","r","s","t","u","v","w","x","y","z"}
Digit == {"0","1","2","3","4","5","6","7","8","9"}
Whitespace == {" ", "\t", "\n"}
AlphaNum == Upper \cup Lower \cup Digit

EmptyStr == <<>>

RECURSIVE TrimStart(_)
TrimStart(s) ==
    IF s = <<>> THEN s
    ELSE IF Head(s) \in Whitespace THEN TrimStart(Tail(s)) ELSE s

RECURSIVE TrimEnd(_)
TrimEnd(s) ==
    IF s = <<>> THEN s
    ELSE IF s[Len(s)] \in Whitespace THEN TrimEnd(SubSeq(s, 1, Len(s) - 1)) ELSE s

\* String.prototype.trim
trim(s) == TrimEnd(TrimStart(s))

\* JavaScript truthiness of a string
Truthy(s) == s # <<>>

\* Utils.isValidEmail: /\S+@\S+\.\S+/.test(email), unanchored
isValidEmail(s) ==
    \E a \in 1..Len(s), d \in 1..Len(s) :
        /\ s[a] = "@"
        /\ s[d] = "."
        /\ a > 1
        /\ s[a - 1] \notin Whitespace
        /\ d > a + 1
        /\ \A k \in (a + 1)..(d - 1) : s[k] \notin Whitespace
        /\ d < Len(s)
        /\ s[d + 1] \notin Whitespace

PhoneSep == {"-", "."} \cup Whitespace

\* Regex matching by positions: each operator maps the set of positions at
\* which the match so far can end (the next unread index) to the set after
\* one more piece of the pattern.

\* \d{lo,hi}
MatchDigits(s, from, lo, hi) ==
    {i + n : i \in from, n \in lo..hi} \cap
    {e \in 1..(Len(s) + 1) :
        \E i \in from, n \in lo..hi :
            e = i + n /\ \A k \in i..(e - 1) : s[k] \in Digit}

\* [class]?
MatchOptional(s, from, class) ==
    from \cup {i + 1 : i \in {j \in from : j <= Len(s) /\ s[j] \in class}}

\* Utils.isValidPhone:
\* /^\+?\d{1,3}[-.\s]?\d{3,4}[-.\s]?\d{3,4}[-.\s]?\d{3,4}$/.test(phone)
isValidPhone(s) ==
    LET p0 == MatchOptional(s, {1}, {"+"})
        p1 == MatchDigits(s, p0, 1, 3)
        p2 == MatchDigits(s, MatchOptional(s, p1, PhoneSep), 3, 4)
        p3 == MatchDigits(s, MatchOptional(s, p2, PhoneSep), 3, 4)
        p4 == MatchDigits(s, MatchOptional(s, p3, PhoneSep), 3, 4)
    IN  (Len(s) + 1) \in p4

(***************************************************************************)
(* Field values typed into the forms                                       *)
(***************************************************************************)
SignupFields == {"firstName", "lastName", "middleName", "email", "phone",
                 "address", "password", "confirmPassword"}

NameBlank == <<" ">>
NameShort == <<"A">>
NameAl    == <<"A", "l">>
NameLee   == <<"L", "e", "e">>
EmailBad  == <<"x">>
EmailOk   == <<"a", "@", "b", ".", "c">>
PhoneBad  == <<"1", "2">>
PhoneOk   == <<"+", "1", " ", "5", "5", "5", "-", "1", "2", "3", "-", "4", "5", "6", "7">>
PwWeak    == <<"a", "b", "c">>
PwGood    == <<"A", "b", "c", "1", "2", "3", "4", "5">>
PwStrong  == <<"A", "b", "c", "d", "e", "f", "1", "!">>
PwStrong2 == <<"X", "y", "z", "7", "8", "9", "#", "q">>

\* rich: the values that reach every branch of the validators;
\* otherwise one invalid and one valid value per field
SignupValues(field, rich) ==
    CASE field = "firstName"       -> IF rich THEN {EmptyStr, NameBlank, NameShort, NameAl}
                                      ELSE {EmptyStr, NameAl}
      [] field = "lastName"        -> {EmptyStr, NameLee}
      [] field = "middleName"      -> {EmptyStr}
      [] field = "email"           -> IF rich THEN {EmptyStr, EmailBad, EmailOk}
                                      ELSE {EmptyStr, EmailOk}
      [] field = "phone"           -> IF rich THEN {EmptyStr, PhoneBad, PhoneOk} ELSE {EmptyStr}
      [] field = "address"         -> {EmptyStr}
      [] field = "password"        -> IF rich THEN {EmptyStr, PwWeak, PwGood, PwStrong, PwStrong2}
                                      ELSE {EmptyStr, PwStrong}
      [] field = "confirmPassword" -> IF rich THEN {EmptyStr, PwGood, PwStrong}
                                      ELSE {EmptyStr, PwStrong}

(***************************************************************************)
(* The error object: a map whose keys are the fields with an error         *)
(***************************************************************************)
NoErrors == [k \in {} |-> ""]

SetErr(e, k, m) == [x \in (DOMAIN e) \cup {k} |-> IF x = k THEN m ELSE e[x]]

\* a delete that removes nothing
DelErrKeeps(e, k) == e

DelErr(e, k) == [x \in (DOMAIN e) \ {k} |-> e[x]]

(***************************************************************************)
(* signup.js: password strength                                            *)
(***************************************************************************)
RequirementNames == <<"length", "uppercase", "lowercase", "number", "special">>

NoRequirements == [r \in {"length", "uppercase", "lowercase", "number", "special"} |-> FALSE]

HasChar(s, class) == \E k \in 1..Len(s) : s[k] \in class

\* "longer than 8" instead of "at least 8"
CheckRequirementsOver8(password) ==
    [length    |-> Len(password) > 8,
     uppercase |-> HasChar(password, Upper),
     lowercase |-> HasChar(password, Lower),
     number    |-> HasChar(password, Digit),
     special   |-> \E k \in 1..Len(password) : password[k] \notin AlphaNum]

\* signup.js validatePassword: passwordRequirements = {...}
CheckRequirements(password) ==
    [length    |-> Len(password) >= 8,
     uppercase |-> HasChar(password, Upper),
     lowercase |-> HasChar(password, Lower),
     number    |-> HasChar(password, Digit),
     special   |-> \E k \in 1..Len(password) :
                       password[k] \notin AlphaNum]

\* 25 points a requirement
StrengthScoreBy25(reqs) == Cardinality({r \in DOMAIN reqs : reqs[r]}) * 25

\* Object.values(passwordRequirements).filter(Boolean).length * 20
StrengthScore(reqs) == Cardinality({r \in DOMAIN reqs : reqs[r]}) * 20

MissingPhrase(r) ==
    CASE r = "length"    -> "at least 8 characters"
      [] r = "uppercase" -> "one uppercase letter"
      [] r = "lowercase" -> "one lowercase letter"
      [] r = "number"    -> "one number"
      [] r = "special"   -> "one special character"

\* the missing requirements in the reverse order
MissingReversed(reqs) ==
    SelectSeq(<<"special", "number", "lowercase", "uppercase", "length">>,
              LAMBDA r : ~reqs[r])

\* the missing[] array built by validatePassword, in the order of the pushes
Missing(reqs) == SelectSeq(RequirementNames, LAMBDA r : ~reqs[r])

RECURSIVE JoinPhrases(_)
\* missing.join(', ')
JoinPhrases(names) ==
    IF names = <<>> THEN ""
    ELSE IF Len(names) = 1 THEN MissingPhrase(names[1])
    ELSE MissingPhrase(names[1]) \o ", " \o JoinPhrases(Tail(names))

\* signup.js validatePassword(password, errors): the errors object, the
\* requirement flags and the score it leaves behind
validatePassword(password, errors, reqs, score) ==
    IF ~Truthy(password)
    THEN [errors |-> SetErr(errors, "password", "Password is required"),
          reqs   |-> reqs,
          score  |-> score]
    ELSE LET newReqs  == CheckRequirements(password)
             newScore == StrengthScore(newReqs)
         IN  [errors |-> IF newScore < 100
                         THEN SetErr(errors, "password",
                                     "Password must contain " \o JoinPhrases(Missing(newReqs)))
                         ELSE DelErr(errors, "password"),
              reqs   |-> newReqs,
              score  |-> newScore]

\* the strength rule tried before the mismatch rule
validateConfirmPasswordStrengthFirst(confirmPassword, errors, passwordValue, score) ==
    IF ~Truthy(confirmPassword)
    THEN SetErr(errors, "confirmPassword", "Please confirm your password")
    ELSE IF score < 100
    THEN SetErr(errors, "confirmPassword", "Please create a stronger password first")
    ELSE IF confirmPassword # passwordValue
    THEN SetErr(errors, "confirmPassword", "Passwords do not match")
    ELSE DelErr(errors, "confirmPassword")

\* signup.js validateConfirmPassword(confirmPassword, errors)
validateConfirmPassword(confirmPassword, errors, passwordValue, score) ==
    IF ~Truthy(confirmPassword)
    THEN SetErr(errors, "confirmPassword", "Please confirm your password")
    ELSE IF confirmPassword # passwordValue
    THEN SetErr(errors, "confirmPassword", "Passwords do not match")
    ELSE IF score < 100
    THEN SetErr(errors, "confirmPassword", "Please create a stronger password first")
    ELSE DelErr(errors, "confirmPassword")

\* signup.js validateField: the switch, for the fields other than password
FieldErrors(field, value, errors, passwordValue, score) ==
    CASE field = "firstName" ->
            IF ~Truthy(trim(value))
            THEN SetErr(errors, "firstName", "First name is required")
            ELSE IF Len(trim(value)) < 2
            THEN SetErr(errors, "firstName", "First name must be at least 2 characters")
            ELSE DelErr(errors, "firstName")
      [] field = "lastName" ->
            IF ~Truthy(trim(value))
            THEN SetErr(errors, "lastName", "Last name is required")
            ELSE IF Len(trim(value)) < 2
            THEN SetErr(errors, "lastName", "Last name must be at least 2 characters")
            ELSE DelErr(errors, "lastName")
      [] field = "email" ->
            IF ~Truthy(trim(value))
            THEN SetErr(errors, "email", "Email is required")
            ELSE IF ~isValidEmail(value)
            THEN SetErr(errors, "email", "Please enter a valid email address")
            ELSE DelErr(errors, "email")
      [] field = "phone" ->
            IF Truthy(value) /\ ~isValidPhone(value)
            THEN SetErr(errors, "phone", "Please enter a valid phone number")
            ELSE DelErr(errors, "phone")
      [] field = "confirmPassword" ->
            validateConfirmPassword(value, errors, passwordValue, score)
      [] OTHER ->
            IF Truthy(trim(value)) THEN DelErr(errors, field) ELSE errors

\* isValidForm without the comparison of the two passwords
isValidFormNoMatch(inp, score, errors) ==
    /\ Truthy(trim(inp["firstName"]))
    /\ Truthy(trim(inp["lastName"]))
    /\ Truthy(trim(inp["email"]))
    /\ Truthy(inp["password"])
    /\ Truthy(inp["confirmPassword"])
    /\ score = 100
    /\ DOMAIN errors = {}

\* isValidForm without the look at validationErrors
isValidFormIgnoresErrors(inp, score, errors) ==
    /\ Truthy(trim(inp["firstName"]))
    /\ Truthy(trim(inp["lastName"]))
    /\ Truthy(trim(inp["email"]))
    /\ Truthy(inp["password"])
    /\ Truthy(inp["confirmPassword"])
    /\ inp["password"] = inp["confirmPassword"]
    /\ score = 100

\* signup.js isValidForm
isValidForm(inp, score, errors) ==
    /\ Truthy(trim(inp["firstName"]))
    /\ Truthy(trim(inp["lastName"]))
    /\ Truthy(trim(inp["email"]))
    /\ Truthy(inp["password"])
    /\ Truthy(inp["confirmPassword"])
    /\ inp["password"] = inp["confirmPassword"]
    /\ score = 100
    /\ DOMAIN errors = {}

\* signup.js updateFieldError(field): the text under the field
updateFieldError(shown, field, errors) ==
    IF field \in DOMAIN errors THEN SetErr(shown, field, errors[field])
    ELSE DelErr(shown, field)

\* validateField that, after the password, also re-validates the confirmation
validateFieldWithConfirm(field, value, inp) ==
    LET pw     == IF field = "password"
                  THEN validatePassword(value, validationErrors,
                                        passwordRequirements, passwordStrengthScore)
                  ELSE [errors |-> FieldErrors(field, value, validationErrors,
                                               inp["password"], passwordStrengthScore),
                        reqs   |-> passwordRequirements,
                        score  |-> passwordStrengthScore]
        errors == IF field = "password"
                  THEN validateConfirmPassword(inp["confirmPassword"], pw.errors,
                                               value, pw.score)
                  ELSE pw.errors
    IN  /\ validationErrors' = errors
        /\ passwordRequirements' = pw.reqs
        /\ passwordStrengthScore' = pw.score
        /\ errorShown' = updateFieldError(errorShown, field, errors)
        \* updateFormState
        /\ btnDisabled' = ~isValidForm(inp, pw.score, errors)

\* signup.js validateField(field, value), with inp the values of the inputs
\* at the time of the call
validateField(field, value, inp) ==
    LET pw     == IF field = "password"
                  THEN validatePassword(value, validationErrors,
                                        passwordRequirements, passwordStrengthScore)
                  ELSE [errors |-> FieldErrors(field, value, validationErrors,
                                               inp["password"], passwordStrengthScore),
                        reqs   |-> passwordRequirements,
                        score  |-> passwordStrengthScore]
    IN  /\ validationErrors' = pw.errors
        /\ passwordRequirements' = pw.reqs
        /\ passwordStrengthScore' = pw.score
        /\ errorShown' = updateFieldError(errorShown, field, pw.errors)
        \* updateFormState
        /\ btnDisabled' = ~isValidForm(inp, pw.score, pw.errors)


(***************************************************************************)
(* utils.js: toasts, the session store, the API client                     *)
(***************************************************************************)
\* Utils.showToast(message, type)
Toast(message, type) == [message |-> message, type |-> type]

\* localStorage.setItem / removeItem on the map of the keys present
setItem(st, k, v) == [x \in (DOMAIN st) \cup {k} |-> IF x = k THEN v ELSE st[x]]

removeItem(st, k) == [x \in (DOMAIN st) \ {k} |-> st[x]]

EmptyStore == [k \in {} |-> ""]

\* JSON.stringify / JSON.parse of a plain object
stringify(obj) == [json |-> obj]

parse(text) == text.json

\* Utils.saveUserData(userData)
saveUserData(st, userData) ==
    setItem(setItem(setItem(setItem(st,
        "userData", stringify(userData)),
        "userEmail", userData.email),
        "userId", userData._id),
        "isAuthenticated", "true")

\* Utils.isAuthenticated()
isAuthenticated(st) ==
    "isAuthenticated" \in DOMAIN st /\ st["isAuthenticated"] = "true"

\* Utils.getUserData() returns an object (TRUE) or null (FALSE)
hasUserData(st) == "userData" \in DOMAIN st

getUserData(st) == parse(st["userData"])

\* a logout that forgets the token
logoutStoreKeepsToken(st) ==
    removeItem(removeItem(removeItem(removeItem(st,
        "userData"), "userEmail"), "userId"), "isAuthenticated")

\* a logout that leaves the authenticated flag behind
logoutStoreKeepsFlag(st) ==
    removeItem(removeItem(removeItem(removeItem(st,
        "userData"), "userEmail"), "userId"), "authToken")

\* Utils.logout(): the five removeItem calls
logoutStore(st) ==
    removeItem(removeItem(removeItem(removeItem(removeItem(st,
        "userData"), "userEmail"), "userId"), "isAuthenticated"), "authToken")

\* an apiRequest that never adds the header
AuthHeaderNever(st) == ""

\* Utils.apiRequest: the Authorization header it adds ("" when it adds none)
AuthHeader(st) ==
    IF "authToken" \in DOMAIN st /\ st["authToken"] # ""
    THEN "Bearer " \o st["authToken"]
    ELSE ""

\* A request handed to fetch; cont names the await that its answer resumes
NoLocals == [firstName |-> EmptyStr, lastName |-> EmptyStr]

\* locals: the handler's variables that its continuation still reads
Request(endpoint, method, body, cont, locals, st) ==
    [endpoint |-> endpoint, method |-> method, authorization |-> AuthHeader(st),
     body |-> body, cont |-> cont, locals |-> locals]

\* What the remote service can answer
User1 == [_id |-> "u1", email |-> "a@b.c"]
Users == {User1}
Tokens == {"", "t1"}          \* "" : the answer carries no access_token
\* detail texts of failing answers, as characters
DetailPlain      == <<"B","a","d"," ","r","e","q","u","e","s","t">>
DetailValidation == <<"v","a","l","i","d","a","t","i","o","n"," ","e","r","r","o","r">>
DetailDuplicate  == <<"a"," ","d","u","p","l","i","c","a","t","e">>
DetailExists     == <<"i","t"," ","a","l","r","e","a","d","y"," ","e","x","i","s","t","s">>
Details == {DetailPlain, DetailValidation, DetailDuplicate, DetailExists}

RequestFailed == <<"R","e","q","u","e","s","t"," ","f","a","i","l","e","d">>
FailedToFetch == <<"F","a","i","l","e","d"," ","t","o"," ","f","e","t","c","h">>

RECURSIVE Str(_)
\* the characters as one message string
Str(chars) == IF chars = <<>> THEN "" ELSE Head(chars) \o Str(Tail(chars))

\* String.prototype.includes
Includes(s, sub) ==
    \E i \in 1..(Len(s) - Len(sub) + 1) : SubSeq(s, i, i + Len(sub) - 1) = sub

OkAnswer(data)   == [kind |-> "ok", data |-> data]
HttpError(hasDetail, detail) ==
    [kind |-> "http_error", hasDetail |-> hasDetail, detail |-> detail]
NetworkError     == [kind |-> "network"]
\* a 2xx answer without a body: response.json() rejects
NoBodyAnswer     == [kind |-> "ok_no_body"]
UnexpectedEnd ==
    <<"U","n","e","x","p","e","c","t","e","d"," ","e","n","d"," ","o","f"," ",
      "J","S","O","N"," ","i","n","p","u","t">>

\* rich: one detail text; otherwise every detail text
ErrorAnswers(rich) ==
    {HttpError(FALSE, EmptyStr), NetworkError}
    \cup {HttpError(TRUE, d) : d \in IF rich THEN {DetailPlain}
                                      ELSE Details \cup {EmptyStr}}

AuthAnswers(rich) ==
    ErrorAnswers(rich)
    \cup (IF rich THEN {}
          ELSE {OkAnswer([user |-> u, access_token |-> t]) : u \in Users, t \in Tokens})

NoData == [none |-> ""]

\* an apiRequest that drops data.detail
apiResultDropsDetail(answer) ==
    CASE answer.kind = "ok" ->
            [ok |-> TRUE, data |-> answer.data, message |-> EmptyStr]
      [] answer.kind = "http_error" ->
            [ok |-> FALSE, data |-> NoData, message |-> RequestFailed]
      [] answer.kind = "network" ->
            [ok |-> FALSE, data |-> NoData, message |-> FailedToFetch]
      [] answer.kind = "ok_no_body" ->
            [ok |-> FALSE, data |-> NoData, message |-> UnexpectedEnd]

\* Utils.apiRequest after the await: the value returned, or the Error thrown
\* (its message): new Error(data.detail || 'Request failed'), the TypeError
\* of a fetch that could not reach the server, or the SyntaxError of
\* "await response.json()" on an answer without a body
apiResult(answer) ==
    CASE answer.kind = "ok" ->
            [ok |-> TRUE, data |-> answer.data, message |-> EmptyStr]
      [] answer.kind = "http_error" ->
            [ok |-> FALSE, data |-> NoData,
             message |-> IF answer.hasDetail /\ Truthy(answer.detail)
                         THEN answer.detail ELSE RequestFailed]
      [] answer.kind = "network" ->
            [ok |-> FALSE, data |-> NoData, message |-> FailedToFetch]
      [] answer.kind = "ok_no_body" ->
            [ok |-> FALSE, data |-> NoData, message |-> UnexpectedEnd]

\* the sequence without its i-th element
RemoveAt(seq, i) == SubSeq(seq, 1, i - 1) \o SubSeq(seq, i + 1, Len(seq))

(***************************************************************************)
(* Page loads                                                              *)
(***************************************************************************)
LoginFields == {"email", "password"}

ContactFields == {"contactName", "contactPhone", "contactEmail",
                  "contactRelationship", "contactPriority"}

PriorityMedium == <<"m", "e", "d", "i", "u", "m">>

\* the values of a document's inputs before anything is typed
\* (also what form.reset() restores)
DefaultInputs(p) ==
    CASE p = "login"     -> [f \in LoginFields |-> EmptyStr]
      [] p = "signup"    -> [f \in SignupFields |-> EmptyStr]
      [] p = "dashboard" -> [f \in ContactFields |->
                                IF f = "contactPriority" THEN PriorityMedium ELSE EmptyStr]

\* what the list containers show before the first render
Unrendered == <<"-">>

\* the state a freshly loaded document starts in; a document that goes away
\* takes its timers and the continuations of its requests with it
FreshPage(p, disabled) ==
    /\ page' = p
    /\ inputs' = DefaultInputs(p)
    /\ validationErrors' = NoErrors
    /\ passwordStrengthScore' = 0
    /\ passwordRequirements' = NoRequirements
    /\ errorShown' = NoErrors
    /\ btnDisabled' = disabled
    /\ toasts' = <<>>
    /\ redirectScheduled' = FALSE
    /\ modalOpen' = FALSE
    /\ contactsList' = Unrendered
    /\ activityList' = Unrendered

\* the variables of the dashboard, which the login and signup pages leave alone
DashboardVars == <<modalOpen, contactsList, activityList>>

(***************************************************************************)
(* Signup page: events                                                     *)
(***************************************************************************)
\* 'input' listener: the browser has set the field to v
SignupInput(field, v) ==
    /\ page = "signup"
    /\ v # inputs[field]
    /\ inputs' = [inputs EXCEPT ![field] = v]
    /\ validateField(field, v, inputs')
    /\ toasts' = <<>>
    /\ UNCHANGED <<page, pending, store, redirectScheduled, DashboardVars>>

\* 'blur' listener
SignupBlur(field) ==
    /\ page = "signup"
    /\ validateField(field, inputs[field], inputs)
    /\ toasts' = <<>>
    /\ UNCHANGED <<page, inputs, pending, store, redirectScheduled, DashboardVars>>

\* x.trim() || undefined
OrUndefined(s) == IF Truthy(trim(s)) THEN trim(s) ELSE "undefined"

\* signup.js handleSignup: signupData
signupData(inp) ==
    [firstName  |-> trim(inp["firstName"]),
     lastName   |-> trim(inp["lastName"]),
     middleName |-> OrUndefined(inp["middleName"]),
     email      |-> trim(inp["email"]),
     phone      |-> OrUndefined(inp["phone"]),
     address    |-> OrUndefined(inp["address"]),
     password   |-> inp["password"]]

\* signup.js handleSignup, up to the await
handleSignup(limit) ==
    /\ page = "signup"
    /\ ~btnDisabled                  \* a disabled submit button submits nothing
    /\ IF ~isValidForm(inputs, passwordStrengthScore, validationErrors)
       THEN /\ toasts' = <<Toast("Please fix all errors before submitting", "error")>>
            /\ UNCHANGED <<btnDisabled, pending>>
       ELSE /\ Len(pending) < limit
            /\ btnDisabled' = TRUE       \* Utils.setLoading(signupBtn, true)
            /\ pending' = Append(pending,
                   Request("/auth/register", "POST", signupData(inputs),
                           "handleSignup", NoLocals, store))
            /\ toasts' = <<>>
    /\ UNCHANGED <<page, inputs, validationErrors, passwordStrengthScore,
                   passwordRequirements, errorShown, store, redirectScheduled,
                   DashboardVars>>

\* a finally that clears the loading state only after a success
AuthResumedKeepsLoading(i, answer, welcome, fallback) ==
    LET res == apiResult(answer)
    IN  /\ pending' = RemoveAt(pending, i)
        /\ IF res.ok
           THEN /\ store' = IF res.data.access_token # ""
                            THEN setItem(saveUserData(store, res.data.user),
                                         "authToken", res.data.access_token)
                            ELSE saveUserData(store, res.data.user)
                /\ toasts' = <<Toast(welcome, "success")>>
                /\ redirectScheduled' = TRUE
           ELSE /\ toasts' = <<Toast(IF Truthy(res.message) THEN Str(res.message)
                                     ELSE fallback, "error")>>
                /\ UNCHANGED <<store, redirectScheduled>>
        /\ btnDisabled' = ~res.ok
        /\ UNCHANGED <<page, inputs, validationErrors, passwordStrengthScore,
                       passwordRequirements, errorShown, DashboardVars>>

\* login.js handleLogin / signup.js handleSignup after the await: the rest of
\* the try block, the catch and the finally
AuthResumed(i, answer, welcome, fallback) ==
    LET res == apiResult(answer)
    IN  /\ pending' = RemoveAt(pending, i)
        /\ IF res.ok
           THEN /\ store' = IF res.data.access_token # ""
                            THEN setItem(saveUserData(store, res.data.user),
                                         "authToken", res.data.access_token)
                            ELSE saveUserData(store, res.data.user)
                /\ toasts' = <<Toast(welcome, "success")>>
                /\ redirectScheduled' = TRUE
           ELSE \* error.message || fallback
                /\ toasts' = <<Toast(IF Truthy(res.message) THEN Str(res.message)
                                     ELSE fallback, "error")>>
                /\ UNCHANGED <<store, redirectScheduled>>
        /\ btnDisabled' = FALSE          \* finally: Utils.setLoading(btn, false)
        /\ UNCHANGED <<page, inputs, validationErrors, passwordStrengthScore,
                       passwordRequirements, errorShown, DashboardVars>>

SignupResumed(i, answer) ==
    /\ page = "signup"
    /\ i \in 1..Len(pending)
    /\ pending[i].cont = "handleSignup"
    /\ AuthResumed(i, answer, "Welcome to SafeGuard!",
                   "Registration failed. Please try again.")

(***************************************************************************)
(* Login page (login.js)                                                   *)
(***************************************************************************)
LoginPassword == <<"p", "w">>

LoginValues(field, rich) ==
    CASE field = "email"    -> IF rich THEN {EmptyStr, NameBlank, EmailBad, EmailOk}
                               ELSE {EmptyStr, EmailOk}
      [] field = "password" -> {EmptyStr, LoginPassword}

\* login.js showFieldError / hideFieldError on the field's error element
showFieldError(shown, field, message) == SetErr(shown, field, message)

hideFieldError(shown, field) == DelErr(shown, field)

\* login.js validateEmail: returns [valid, shown]
loginValidateEmail(inp, shown) ==
    LET email == trim(inp["email"])
    IN  IF ~Truthy(email)
        THEN [valid |-> FALSE, shown |-> showFieldError(shown, "email", "Email is required")]
        ELSE IF ~isValidEmail(email)
        THEN [valid |-> FALSE,
              shown |-> showFieldError(shown, "email", "Please enter a valid email address")]
        ELSE [valid |-> TRUE, shown |-> hideFieldError(shown, "email")]

\* a validatePassword that accepts the empty password
loginValidatePasswordLax(inp, shown) ==
    [valid |-> TRUE, shown |-> hideFieldError(shown, "password")]

\* login.js validatePassword: returns [valid, shown]
loginValidatePassword(inp, shown) ==
    IF ~Truthy(inp["password"])
    THEN [valid |-> FALSE, shown |-> showFieldError(shown, "password", "Password is required")]
    ELSE [valid |-> TRUE, shown |-> hideFieldError(shown, "password")]

LoginFrame ==
    UNCHANGED <<page, validationErrors, passwordStrengthScore, passwordRequirements,
                store, redirectScheduled, DashboardVars>>

\* typing into a login field: login.js listens to blur only
LoginType(field, v) ==
    /\ page = "login"
    /\ v # inputs[field]
    /\ inputs' = [inputs EXCEPT ![field] = v]
    /\ toasts' = <<>>
    /\ LoginFrame
    /\ UNCHANGED <<errorShown, btnDisabled, pending>>

\* 'blur' listeners: validateEmail, validatePassword
LoginBlur(field) ==
    /\ page = "login"
    /\ errorShown' = IF field = "email" THEN loginValidateEmail(inputs, errorShown).shown
                     ELSE loginValidatePassword(inputs, errorShown).shown
    /\ toasts' = <<>>
    /\ LoginFrame
    /\ UNCHANGED <<inputs, btnDisabled, pending>>

\* login.js handleLogin: loginData
loginData(inp) == [email |-> trim(inp["email"]), password |-> inp["password"]]

\* login.js handleLogin, up to the await
handleLogin(limit) ==
    LET e == loginValidateEmail(inputs, errorShown)
        p == loginValidatePassword(inputs, e.shown)
    IN  /\ page = "login"
        /\ ~btnDisabled              \* a disabled submit button submits nothing
        /\ errorShown' = p.shown
        /\ IF ~e.valid \/ ~p.valid
           THEN /\ toasts' = <<Toast("Please fix all errors before submitting", "error")>>
                /\ UNCHANGED <<btnDisabled, pending>>
           ELSE /\ Len(pending) < limit
                /\ btnDisabled' = TRUE      \* Utils.setLoading(loginBtn, true)
                /\ pending' = Append(pending,
                       Request("/auth/login", "POST", loginData(inputs),
                               "handleLogin", NoLocals, store))
                /\ toasts' = <<>>
        /\ LoginFrame
        /\ UNCHANGED inputs

LoginResumed(i, answer) ==
    /\ page = "login"
    /\ i \in 1..Len(pending)
    /\ pending[i].cont = "handleLogin"
    /\ AuthResumed(i, answer, "Welcome back!", "Login failed. Please try again.")

(***************************************************************************)
(* Dashboard: the add-contact form                                         *)
(***************************************************************************)
NameMaria   == <<"M", "a", "r", "i", "a">>
NameMariaLC == <<"M", "a", "r", "i", "a", " ", "L", "o", "p", "e", "z", " ", "C", "r", "u", "z">>
NameTwoGaps == <<" ", "A", "l", " ", " ", "L", "e", "e">>
ContactPhoneOk  == <<"5", "5", "5", "1", "2", "3", "4", "5", "6", "7">>
ContactPhoneFmt == <<"+", "1", " ", "(", "5", "5", "5", ")", " ", "1", "2", "3", "-", "4", "5", "6", "7">>
RelFriend   == <<"f", "r", "i", "e", "n", "d">>

ContactValues(field, rich) ==
    CASE field = "contactName" ->
            IF rich THEN {EmptyStr, NameBlank, NameShort, NameMaria, NameMariaLC, NameTwoGaps}
            ELSE {EmptyStr, NameMaria}
      [] field = "contactPhone" ->
            IF rich THEN {EmptyStr, PhoneBad, ContactPhoneOk, ContactPhoneFmt}
            ELSE {EmptyStr, ContactPhoneOk}
      [] field = "contactEmail" ->
            IF rich THEN {EmptyStr, EmailBad, EmailOk} ELSE {EmptyStr}
      [] field = "contactRelationship" -> {EmptyStr, RelFriend}
      [] field = "contactPriority" -> {PriorityMedium}

\* /^[\+]?[\d\s\-\(\)]{10,}$/.test(phone)
isContactPhone(phone) ==
    LET first == IF phone # <<>> /\ phone[1] = "+" THEN 2 ELSE 1
    IN  /\ Len(phone) - first + 1 >= 10
        /\ \A k \in first..Len(phone) :
              phone[k] \in Digit \cup Whitespace \cup {"-", "(", ")"}

\* validateContactName: returns [valid, shown]
validateContactName(inp, shown) ==
    LET name == trim(inp["contactName"])
    IN  IF ~Truthy(name)
        THEN [valid |-> FALSE, shown |-> showFieldError(shown, "contactName", "Name is required")]
        ELSE IF Len(name) < 2
        THEN [valid |-> FALSE,
              shown |-> showFieldError(shown, "contactName", "Name must be at least 2 characters")]
        ELSE [valid |-> TRUE, shown |-> hideFieldError(shown, "contactName")]

\* validateContactPhone: returns [valid, shown]
validateContactPhone(inp, shown) ==
    LET phone == trim(inp["contactPhone"])
    IN  IF ~Truthy(phone)
        THEN [valid |-> FALSE,
              shown |-> showFieldError(shown, "contactPhone", "Phone number is required")]
        ELSE IF ~isContactPhone(phone)
        THEN [valid |-> FALSE,
              shown |-> showFieldError(shown, "contactPhone", "Please enter a valid phone number")]
        ELSE [valid |-> TRUE, shown |-> hideFieldError(shown, "contactPhone")]

\* validateContactEmail: returns [valid, shown]
validateContactEmail(inp, shown) ==
    LET email == trim(inp["contactEmail"])
    IN  IF Truthy(email) /\ ~isValidEmail(email)
        THEN [valid |-> FALSE,
              shown |-> showFieldError(shown, "contactEmail", "Please enter a valid email address")]
        ELSE [valid |-> TRUE, shown |-> hideFieldError(shown, "contactEmail")]

\* validateContactRelationship: returns [valid, shown]
validateContactRelationship(inp, shown) ==
    IF ~Truthy(inp["contactRelationship"])
    THEN [valid |-> FALSE,
          shown |-> showFieldError(shown, "contactRelationship", "Please select a relationship")]
    ELSE [valid |-> TRUE, shown |-> hideFieldError(shown, "contactRelationship")]

\* the validator that setupFormValidation attaches to the field
ContactValidator(field, inp, shown) ==
    CASE field = "contactName"         -> validateContactName(inp, shown)
      [] field = "contactPhone"        -> validateContactPhone(inp, shown)
      [] field = "contactEmail"        -> validateContactEmail(inp, shown)
      [] field = "contactRelationship" -> validateContactRelationship(inp, shown)

RECURSIVE SplitAt(_, _, _)
\* String.prototype.split(sep), cur being the piece read so far
SplitAt(s, sep, cur) ==
    IF s = <<>> THEN <<cur>>
    ELSE IF Head(s) = sep THEN <<cur>> \o SplitAt(Tail(s), sep, <<>>)
    ELSE SplitAt(Tail(s), sep, Append(cur, Head(s)))

RECURSIVE JoinWith(_, _)
\* Array.prototype.join(sep)
JoinWith(parts, sep) ==
    IF parts = <<>> THEN <<>>
    ELSE IF Len(parts) = 1 THEN parts[1]
    ELSE parts[1] \o <<sep>> \o JoinWith(Tail(parts), sep)

NotAvailable == <<"N", "/", "A">>

\* a split that keeps the empty pieces between repeated spaces
namePartsUnfiltered(fullName) == SplitAt(fullName, " ", <<>>)

\* handleAddContact: fullName.split(' ').filter(part => part.length > 0)
nameParts(fullName) == SelectSeq(SplitAt(fullName, " ", <<>>), LAMBDA part : Len(part) > 0)

\* handleAddContact: firstName and lastName
splitName(fullName) ==
    LET parts     == nameParts(fullName)
        firstName == IF parts # <<>> THEN parts[1] ELSE EmptyStr
        lastName  == IF Len(parts) > 1 THEN JoinWith(Tail(parts), " ") ELSE EmptyStr
    IN  [firstName |-> firstName,
         lastName  |-> IF ~Truthy(lastName) /\ Truthy(firstName) THEN NotAvailable
                       ELSE lastName]

\* handleAddContact: contactData
contactData(inp, st) ==
    LET names == splitName(trim(inp["contactName"]))
    IN  [userId       |-> getUserData(st)._id,
         firstName    |-> names.firstName,
         lastName     |-> names.lastName,
         phone        |-> trim(inp["contactPhone"]),
         email        |-> OrUndefined(inp["contactEmail"]),
         relationship |-> inp["contactRelationship"],
         priority     |-> inp["contactPriority"]]

DashboardFrame ==
    UNCHANGED <<page, validationErrors, passwordStrengthScore, passwordRequirements,
                redirectScheduled>>

\* addContact(): the button that opens the modal
addContact ==
    /\ page = "dashboard"
    /\ modalOpen' = TRUE
    /\ toasts' = <<>>
    /\ DashboardFrame
    /\ UNCHANGED <<inputs, errorShown, btnDisabled, pending, store, contactsList,
                   activityList>>

\* closeContactModal(): hide, form.reset(), remove the field errors
closeContactModal ==
    /\ page = "dashboard"
    /\ modalOpen
    /\ modalOpen' = FALSE
    /\ inputs' = DefaultInputs("dashboard")
    /\ errorShown' = NoErrors
    /\ toasts' = <<>>
    /\ DashboardFrame
    /\ UNCHANGED <<btnDisabled, pending, store, contactsList, activityList>>

\* 'input' / 'change' listener of an add-contact field
ContactInput(field, v) ==
    /\ page = "dashboard"
    /\ modalOpen
    /\ v # inputs[field]
    /\ inputs' = [inputs EXCEPT ![field] = v]
    /\ errorShown' = ContactValidator(field, inputs', errorShown).shown
    /\ toasts' = <<>>
    /\ DashboardFrame
    /\ UNCHANGED <<btnDisabled, pending, store, modalOpen, contactsList, activityList>>

\* 'blur' listener of contactName, contactPhone, contactEmail
ContactBlur(field) ==
    /\ page = "dashboard"
    /\ modalOpen
    /\ field \in {"contactName", "contactPhone", "contactEmail"}
    /\ errorShown' = ContactValidator(field, inputs, errorShown).shown
    /\ toasts' = <<>>
    /\ DashboardFrame
    /\ UNCHANGED <<inputs, btnDisabled, pending, store, modalOpen, contactsList,
                   activityList>>

\* what the remote service can answer to the dashboard's requests
ContactLists  == {<<>>, <<"c1">>}
ActivityLists == {<<"a1">>}

ListAnswers(lists, rich) == ErrorAnswers(rich) \cup {OkAnswer(l) : l \in lists}

CreatedAnswers(rich) == ErrorAnswers(rich) \cup {OkAnswer([_id |-> "c1"])}

\* loadContacts / loadRecentActivity / addActivity start with
\* "if (!userData) return": the request each issues when there is a user
ContactsRequest(cont, locals, st) ==
    Request("/contacts/user/" \o getUserData(st)._id, "GET", NoData, cont, locals, st)

ActivitiesRequest(cont, st) ==
    Request("/activities/user/" \o getUserData(st)._id, "GET", NoData, cont, NoLocals, st)

\* addActivity: activityData (the timestamp is left out)
activityData(type, description, status, st) ==
    [userId |-> getUserData(st)._id, type |-> type, description |-> description,
     status |-> status]

\* handleAddContact's description of the activity,
\* `Added ${firstName} ${lastName !== 'N/A' ? lastName : ''} as emergency contact`
addedDescription(locals) ==
    "Added " \o Str(locals.firstName) \o " "
        \o (IF locals.lastName # NotAvailable THEN Str(locals.lastName) ELSE "")
        \o " as emergency contact"

\* handleAddContact, up to the await
handleAddContact(limit) ==
    LET n     == validateContactName(inputs, errorShown)
        ph    == validateContactPhone(inputs, n.shown)
        em    == validateContactEmail(inputs, ph.shown)
        rel   == validateContactRelationship(inputs, em.shown)
        data  == contactData(inputs, store)
    IN  /\ page = "dashboard"
        /\ modalOpen
        /\ ~btnDisabled              \* a disabled submit button submits nothing
        /\ IF ~hasUserData(store)
           THEN \* session expired: toast, then Utils.logout()
                /\ store' = logoutStore(store)
                /\ FreshPage("login", FALSE)
                /\ pending' = <<>>
           ELSE /\ errorShown' = rel.shown
                /\ IF ~n.valid \/ ~ph.valid \/ ~em.valid \/ ~rel.valid
                   THEN /\ toasts' = <<Toast("Please fix all validation errors before submitting",
                                            "error")>>
                        /\ UNCHANGED <<btnDisabled, pending>>
                   ELSE IF ~Truthy(data.firstName) \/ ~Truthy(data.lastName)
                           \/ ~Truthy(data.phone) \/ ~Truthy(data.relationship)
                   THEN /\ toasts' = <<Toast("All required fields must be filled", "error")>>
                        /\ UNCHANGED <<btnDisabled, pending>>
                   ELSE /\ Len(pending) < limit
                        /\ btnDisabled' = TRUE   \* Utils.setLoading(submitBtn, true)
                        /\ pending' = Append(pending,
                               Request("/contacts/", "POST", data, "handleAddContact",
                                       [firstName |-> data.firstName,
                                        lastName  |-> data.lastName], store))
                        /\ toasts' = <<>>
                /\ DashboardFrame
                /\ UNCHANGED <<inputs, store, modalOpen, contactsList, activityList>>

WordValidation == <<"v", "a", "l", "i", "d", "a", "t", "i", "o", "n">>
WordDuplicate  == <<"d", "u", "p", "l", "i", "c", "a", "t", "e">>
WordsAlreadyExists == <<"a", "l", "r", "e", "a", "d", "y", " ", "e", "x", "i", "s", "t", "s">>

\* handleAddContact's catch: errorMessage
addContactErrorMessage(message) ==
    IF ~Truthy(message) THEN "Failed to add contact"
    ELSE IF Includes(message, WordValidation)
    THEN "Please check all required fields are properly filled"
    ELSE IF Includes(message, WordDuplicate) \/ Includes(message, WordsAlreadyExists)
    THEN "A contact with this information already exists"
    ELSE "Error: " \o Str(message)

\* handleAddContact after "await Utils.apiRequest('/contacts/', ...)"
AddContactResumed(i, answer) ==
    LET res    == apiResult(answer)
        locals == pending[i].locals
    IN  /\ page = "dashboard"
        /\ i \in 1..Len(pending)
        /\ pending[i].cont = "handleAddContact"
        /\ IF res.ok
           THEN /\ toasts' = <<Toast("Contact \"" \o Str(locals.firstName) \o " "
                                     \o Str(locals.lastName) \o "\" added successfully!",
                                     "success")>>
                \* closeContactModal()
                /\ modalOpen' = FALSE
                /\ inputs' = DefaultInputs("dashboard")
                /\ errorShown' = NoErrors
                \* await loadContacts()
                /\ IF hasUserData(store)
                   THEN /\ pending' = Append(RemoveAt(pending, i),
                               ContactsRequest("handleAddContact/loadContacts", locals, store))
                        /\ UNCHANGED btnDisabled
                   ELSE /\ pending' = RemoveAt(pending, i)
                        /\ btnDisabled' = FALSE
           ELSE /\ toasts' = <<Toast(addContactErrorMessage(res.message), "error")>>
                /\ btnDisabled' = FALSE      \* Utils.setLoading(submitBtn, false)
                /\ pending' = RemoveAt(pending, i)
                /\ UNCHANGED <<modalOpen, inputs, errorShown>>
        /\ DashboardFrame
        /\ UNCHANGED <<store, contactsList, activityList>>

\* the handler that a continuation belongs to ("" for a call from page load)
Caller(cont) ==
    CASE cont \in {"handleAddContact/loadContacts", "handleAddContact/addActivity",
                   "handleAddContact/loadRecentActivity"} -> "handleAddContact"
      [] cont \in {"deleteContact/loadContacts", "deleteContact/addActivity"} -> "deleteContact"
      [] cont \in {"quick/addActivity", "quick/loadRecentActivity"} -> "quick"
      [] cont = "refreshActivity/loadRecentActivity" -> "refreshActivity"
      [] OTHER -> ""

\* addActivity(type, description, status) up to its await: the request it
\* issues, or none when there is no user ("if (!userData) return")
ActivityRequests(caller, type, description, st) ==
    IF hasUserData(st)
    THEN <<Request("/activities/", "POST", activityData(type, description, "success", st),
                   caller \o "/addActivity", NoLocals, st)>>
    ELSE <<>>

\* loadRecentActivity() up to its await: the request it issues, or none
RecentActivityRequests(caller, st) ==
    IF hasUserData(st)
    THEN <<ActivitiesRequest(caller \o "/loadRecentActivity", st)>>
    ELSE <<>>

\* loadContacts after its await; then, inside handleAddContact, addActivity
\* up to its await
LoadContactsResumed(i, answer) ==
    LET res    == apiResult(answer)
        caller == Caller(pending[i].cont)
        \* what the caller awaits next
        next   == CASE caller = "handleAddContact" ->
                         ActivityRequests(caller, "contact_called",
                                          addedDescription(pending[i].locals), store)
                    [] caller = "deleteContact" ->
                         ActivityRequests(caller, "contact_called",
                                          "Removed emergency contact", store)
                    [] OTHER -> <<>>
    IN  /\ page = "dashboard"
        /\ i \in 1..Len(pending)
        /\ pending[i].cont \in {"loadContacts", "handleAddContact/loadContacts",
                                "deleteContact/loadContacts"}
        /\ IF res.ok
           THEN contactsList' = res.data /\ toasts' = <<>>
           ELSE /\ toasts' = <<Toast("Failed to load contacts", "error")>>
                /\ UNCHANGED contactsList
        /\ pending' = RemoveAt(pending, i) \o next
        \* no user: addActivity and loadRecentActivity return at once and
        \* handleAddContact ends with Utils.setLoading(submitBtn, false)
        /\ btnDisabled' = IF caller = "handleAddContact" /\ next = <<>>
                          THEN FALSE ELSE btnDisabled
        /\ DashboardFrame
        /\ UNCHANGED <<inputs, errorShown, store, modalOpen, activityList>>

\* an addActivity whose failure is reported and ends the enclosing action
AddActivityResumedReporting(i, answer) ==
    LET caller == Caller(pending[i].cont)
        failed == ~apiResult(answer).ok
        next   == IF caller \in {"handleAddContact", "quick"} /\ ~failed
                  THEN RecentActivityRequests(caller, store) ELSE <<>>
    IN  /\ page = "dashboard"
        /\ i \in 1..Len(pending)
        /\ pending[i].cont \in {"handleAddContact/addActivity", "deleteContact/addActivity",
                                "quick/addActivity"}
        /\ toasts' = IF failed THEN <<Toast("Failed to add activity", "error")>> ELSE <<>>
        /\ pending' = RemoveAt(pending, i) \o next
        /\ btnDisabled' = IF caller = "handleAddContact" /\ next = <<>>
                          THEN FALSE ELSE btnDisabled
        /\ DashboardFrame
        /\ UNCHANGED <<inputs, errorShown, store, modalOpen, contactsList, activityList>>

\* addActivity after its await (a failure is only logged); then
\* loadRecentActivity up to its await
AddActivityResumed(i, answer) ==
    LET caller == Caller(pending[i].cont)
        next   == IF caller \in {"handleAddContact", "quick"}
                  THEN RecentActivityRequests(caller, store) ELSE <<>>
    IN  /\ page = "dashboard"
        /\ i \in 1..Len(pending)
        /\ pending[i].cont \in {"handleAddContact/addActivity", "deleteContact/addActivity",
                                "quick/addActivity"}
        /\ toasts' = <<>>
        /\ pending' = RemoveAt(pending, i) \o next
        /\ btnDisabled' = IF caller = "handleAddContact" /\ next = <<>>
                          THEN FALSE ELSE btnDisabled
        /\ DashboardFrame
        /\ UNCHANGED <<inputs, errorShown, store, modalOpen, contactsList, activityList>>

\* loadRecentActivity after its await; inside handleAddContact the handler
\* then ends with Utils.setLoading(submitBtn, false)
LoadRecentActivityResumed(i, answer) ==
    LET res    == apiResult(answer)
        caller == Caller(pending[i].cont)
        \* refreshActivity: Utils.showToast('Activity refreshed', 'success')
        after  == IF caller = "refreshActivity"
                  THEN <<Toast("Activity refreshed", "success")>> ELSE <<>>
    IN  /\ page = "dashboard"
        /\ i \in 1..Len(pending)
        /\ pending[i].cont \in {"loadRecentActivity", "handleAddContact/loadRecentActivity",
                                "quick/loadRecentActivity",
                                "refreshActivity/loadRecentActivity"}
        /\ IF res.ok
           THEN activityList' = res.data /\ toasts' = after
           ELSE /\ toasts' = <<Toast("Failed to load recent activity", "error")>> \o after
                /\ UNCHANGED activityList
        /\ pending' = RemoveAt(pending, i)
        /\ btnDisabled' = IF caller = "handleAddContact" THEN FALSE ELSE btnDisabled
        /\ DashboardFrame
        /\ UNCHANGED <<inputs, errorShown, store, modalOpen, contactsList>>

(***************************************************************************)
(* Dashboard: deleting a contact, the quick actions, the activity list     *)
(***************************************************************************)
\* the ids of the contacts whose delete button is rendered
RenderedContacts ==
    IF contactsList = Unrendered THEN {} ELSE {contactsList[k] : k \in 1..Len(contactsList)}

\* what the remote service can answer to DELETE /contacts/{contactId}: an
\* error, a 2xx answer without a body, or a 2xx answer with a JSON body
DeleteAnswers(rich) == ErrorAnswers(rich) \cup {NoBodyAnswer, OkAnswer(NoData)}

\* deleteContact(contactId), confirmed, up to the await
deleteContact(contactId, limit) ==
    /\ page = "dashboard"
    /\ contactId \in RenderedContacts
    /\ Len(pending) < limit
    /\ pending' = Append(pending,
           Request("/contacts/" \o contactId, "DELETE", NoData, "deleteContact",
                   NoLocals, store))
    /\ toasts' = <<>>
    /\ DashboardFrame
    /\ UNCHANGED <<inputs, errorShown, btnDisabled, store, modalOpen, contactsList,
                   activityList>>

\* deleteContact after "await Utils.apiRequest(`/contacts/${contactId}`, ...)":
\* the success toast and loadContacts() up to its await, or the catch
DeleteContactResumed(i, answer) ==
    LET res == apiResult(answer)
    IN  /\ page = "dashboard"
        /\ i \in 1..Len(pending)
        /\ pending[i].cont = "deleteContact"
        /\ IF res.ok
           THEN /\ toasts' = <<Toast("Contact deleted successfully", "success")>>
                /\ pending' = RemoveAt(pending, i) \o
                       (IF hasUserData(store)
                        THEN <<ContactsRequest("deleteContact/loadContacts", NoLocals, store)>>
                        ELSE <<>>)
           ELSE /\ toasts' = <<Toast("Failed to delete contact", "error")>>
                /\ pending' = RemoveAt(pending, i)
        /\ DashboardFrame
        /\ UNCHANGED <<inputs, errorShown, btnDisabled, store, modalOpen, contactsList,
                       activityList>>

\* the quick actions: the toast each shows and the activity each logs
QuickActions == {"check_in", "emergency_alert", "location_shared"}

QuickToasts(type) ==
    CASE type = "check_in" ->
            <<Toast("Check-in sent to your contacts", "success")>>
      [] type = "emergency_alert" ->
            <<Toast("Emergency alert sent to all contacts!", "success")>>
      [] type = "location_shared" ->
            <<Toast("Getting your location...", "info"),
              Toast("Location shared with emergency contacts", "success")>>

QuickDescription(type) ==
    CASE type = "check_in"        -> "Sent safety check-in to contacts"
      [] type = "emergency_alert" -> "Emergency alert sent to all contacts"
      [] type = "location_shared" -> "Shared location: 0.000000, 0.000000"

\* checkIn(), emergencyAlert() confirmed, shareLocation() with its position
\* callback, each up to the await of addActivity
QuickAction(type, limit) ==
    /\ page = "dashboard"
    /\ Len(pending) < limit
    /\ toasts' = QuickToasts(type)
    /\ pending' = pending \o ActivityRequests("quick", type, QuickDescription(type), store)
    /\ DashboardFrame
    /\ UNCHANGED <<inputs, errorShown, btnDisabled, store, modalOpen, contactsList,
                   activityList>>

LocationErrors == {"Location access denied by user"}

\* shareLocation() with its error callback
shareLocationFailed(message) ==
    /\ page = "dashboard"
    /\ toasts' = <<Toast("Getting your location...", "info"), Toast(message, "error")>>
    /\ DashboardFrame
    /\ UNCHANGED <<inputs, errorShown, btnDisabled, pending, store, modalOpen,
                   contactsList, activityList>>

\* refreshActivity() up to the await of loadRecentActivity
refreshActivity(limit) ==
    LET requests == RecentActivityRequests("refreshActivity", store)
    IN  /\ page = "dashboard"
        /\ Len(pending) < limit
        /\ pending' = pending \o requests
        /\ toasts' = IF requests = <<>>
                     THEN <<Toast("Activity refreshed", "success")>> ELSE <<>>
        /\ DashboardFrame
        /\ UNCHANGED <<inputs, errorShown, btnDisabled, store, modalOpen, contactsList,
                       activityList>>

\* Utils.logout() run by another tab of the same origin: localStorage is
\* shared, this document stays as it is
LogoutElsewhere ==
    /\ page = "dashboard"
    /\ hasUserData(store)
    /\ store' = logoutStore(store)
    /\ UNCHANGED <<page, inputs, validationErrors, passwordStrengthScore,
                   passwordRequirements, errorShown, btnDisabled, pending, toasts,
                   redirectScheduled, modalOpen, contactsList, activityList>>

(***************************************************************************)
(* Navigation                                                              *)
(***************************************************************************)
\* the document that ends up loaded when the browser is sent to target:
\* login.js / signup.js send an authenticated visitor on to the dashboard,
\* Utils.requireAuth sends an unauthenticated one back to index.html
Landing(target, st) ==
    IF isAuthenticated(st) THEN "dashboard" ELSE IF target = "dashboard" THEN "login" ELSE target

\* the DOMContentLoaded handler of the document that ends up loaded
LoadPage(target) ==
    LET p == Landing(target, store)
    IN  IF p = "dashboard"
        THEN IF hasUserData(store)
             THEN \* loadUserProfile(); loadContacts(); loadRecentActivity()
                  /\ FreshPage("dashboard", FALSE)
                  /\ pending' = <<ContactsRequest("loadContacts", NoLocals, store),
                                  ActivitiesRequest("loadRecentActivity", store)>>
                  /\ UNCHANGED store
             ELSE \* loadUserProfile: Utils.logout()
                  /\ FreshPage("login", FALSE)
                  /\ pending' = <<>>
                  /\ store' = logoutStore(store)
        ELSE /\ \E d \in (IF p = "signup" THEN BOOLEAN ELSE {FALSE}) : FreshPage(p, d)
             /\ pending' = <<>>
             /\ UNCHANGED store

\* signup.js goToLogin
goToLogin ==
    /\ page = "signup"
    /\ LoadPage("login")

\* the link from the login page to signup.html
goToSignup ==
    /\ page = "login"
    /\ LoadPage("signup")

\* the setTimeout callback of handleLogin / handleSignup
RedirectToDashboard ==
    /\ page \in {"login", "signup"}
    /\ redirectScheduled
    /\ LoadPage("dashboard")

\* dashboard logout(), confirmed: Utils.logout()
logout ==
    /\ page = "dashboard"
    /\ store' = logoutStore(store)
    /\ FreshPage("login", FALSE)
    /\ pending' = <<>>

(***************************************************************************)
(* Specifications                                                          *)
(***************************************************************************)
\* a first visit: nothing stored, index.html or signup.html opened
Init ==
    /\ page \in {"login", "signup"}
    /\ inputs = DefaultInputs(page)
    /\ validationErrors = NoErrors
    /\ passwordStrengthScore = 0
    /\ passwordRequirements = NoRequirements
    /\ errorShown = NoErrors
    /\ btnDisabled \in (IF page = "signup" THEN BOOLEAN ELSE {FALSE})
    /\ pending = <<>>
    /\ toasts = <<>>
    /\ store = EmptyStore
    /\ redirectScheduled = FALSE
    /\ modalOpen = FALSE
    /\ contactsList = Unrendered
    /\ activityList = Unrendered

SignupNext(rich, limit) ==
    \/ \E f \in SignupFields : \E v \in SignupValues(f, rich) : SignupInput(f, v)
    \/ \E f \in SignupFields : SignupBlur(f)
    \/ handleSignup(limit)
    \/ \E i \in 1..limit : \E a \in AuthAnswers(rich) : SignupResumed(i, a)
    \/ goToLogin

LoginNext(rich, limit) ==
    \/ \E f \in LoginFields : \E v \in LoginValues(f, rich) : LoginType(f, v)
    \/ \E f \in LoginFields : LoginBlur(f)
    \/ handleLogin(limit)
    \/ \E i \in 1..limit : \E a \in AuthAnswers(rich) : LoginResumed(i, a)
    \/ goToSignup

DashboardNext(rich, limit) ==
    \/ addContact
    \/ closeContactModal
    \/ \E f \in ContactFields : \E v \in ContactValues(f, rich) : ContactInput(f, v)
    \/ \E f \in ContactFields : ContactBlur(f)
    \/ handleAddContact(limit)
    \/ \E i \in 1..limit : \E a \in CreatedAnswers(rich) : AddContactResumed(i, a)
    \/ \E i \in 1..limit : \E a \in ListAnswers(ContactLists, rich) : LoadContactsResumed(i, a)
    \/ \E i \in 1..limit : \E a \in CreatedAnswers(rich) : AddActivityResumed(i, a)
    \/ \E i \in 1..limit : \E a \in ListAnswers(ActivityLists, rich) :
           LoadRecentActivityResumed(i, a)
    \/ logout

Next ==
    \/ SignupNext(FALSE, MaxInFlight)
    \/ LoginNext(FALSE, MaxInFlight)
    \/ RedirectToDashboard
    \/ DashboardNext(FALSE, MaxInFlight)

NextForms ==
    \/ SignupNext(TRUE, FormsInFlight)
    \/ LoginNext(TRUE, FormsInFlight)

\* a returning visitor opens dashboard.html with the session of an earlier
\* login in localStorage: loadUserProfile(), loadContacts(), loadRecentActivity()
InitDashboard ==
    /\ \E t \in Tokens :
          store = IF t = "" THEN saveUserData(EmptyStore, User1)
                  ELSE setItem(saveUserData(EmptyStore, User1), "authToken", t)
    /\ page = "dashboard"
    /\ inputs = DefaultInputs("dashboard")
    /\ validationErrors = NoErrors
    /\ passwordStrengthScore = 0
    /\ passwordRequirements = NoRequirements
    /\ errorShown = NoErrors
    /\ btnDisabled = FALSE
    /\ pending = <<ContactsRequest("loadContacts", NoLocals, store),
                   ActivitiesRequest("loadRecentActivity", store)>>
    /\ toasts = <<>>
    /\ redirectScheduled = FALSE
    /\ modalOpen = FALSE
    /\ contactsList = Unrendered
    /\ activityList = Unrendered

DashboardMore(rich, limit) ==
    \/ \E c \in {"c1"} : deleteContact(c, limit)
    \/ \E i \in DOMAIN pending : \E a \in DeleteAnswers(rich) : DeleteContactResumed(i, a)
    \/ \E type \in QuickActions : QuickAction(type, limit)
    \/ \E m \in LocationErrors : shareLocationFailed(m)
    \/ refreshActivity(limit)
    \/ LogoutElsewhere

NextDashboard ==
    \/ addContact
    \/ closeContactModal
    \/ \E f \in ContactFields : \E v \in ContactValues(f, FALSE) : ContactInput(f, v)
    \/ \E f \in ContactFields : ContactBlur(f)
    \/ handleAddContact(DashInFlight)
    \/ \E i \in DOMAIN pending : \E a \in CreatedAnswers(TRUE) : AddContactResumed(i, a)
    \/ \E i \in DOMAIN pending : \E a \in ListAnswers(ContactLists, TRUE) :
           LoadContactsResumed(i, a)
    \/ \E i \in DOMAIN pending : \E a \in CreatedAnswers(TRUE) : AddActivityResumed(i, a)
    \/ \E i \in DOMAIN pending : \E a \in ListAnswers(ActivityLists, TRUE) :
           LoadRecentActivityResumed(i, a)
    \/ logout
    \/ DashboardMore(TRUE, DashInFlight)

\* the add-contact form alone, with the values that reach every branch of
\* its validators and of the name splitting
NextContacts ==
    \/ addContact
    \/ closeContactModal
    \/ \E f \in ContactFields : \E v \in ContactValues(f, TRUE) : ContactInput(f, v)
    \/ \E f \in ContactFields : ContactBlur(f)
    \/ handleAddContact(ContactsInFlight)
    \/ \E i \in DOMAIN pending : \E a \in CreatedAnswers(TRUE) : AddContactResumed(i, a)
    \/ \E i \in DOMAIN pending : \E a \in ListAnswers(ContactLists, TRUE) :
           LoadContactsResumed(i, a)
    \/ \E i \in DOMAIN pending : \E a \in CreatedAnswers(TRUE) : AddActivityResumed(i, a)
    \/ \E i \in DOMAIN pending : \E a \in ListAnswers(ActivityLists, TRUE) :
           LoadRecentActivityResumed(i, a)

\* the dashboard while the contact fetch of the page load is still
\* unanswered: adding and deleting contacts, each followed by its own
\* loadContacts(), with the answers arriving in any order
NextOverlap ==
    \/ addContact
    \/ \E f \in ContactFields : \E v \in ContactValues(f, FALSE) : ContactInput(f, v)
    \/ handleAddContact(OverlapInFlight)
    \/ \E i \in DOMAIN pending : \E a \in CreatedAnswers(FALSE) : AddContactResumed(i, a)
    \/ \E i \in DOMAIN pending : \E a \in ListAnswers(ContactLists, FALSE) :
           LoadContactsResumed(i, a)
    \/ \E i \in DOMAIN pending : \E a \in CreatedAnswers(FALSE) : AddActivityResumed(i, a)
    \/ \E i \in DOMAIN pending : \E a \in ListAnswers(ActivityLists, FALSE) :
           LoadRecentActivityResumed(i, a)
    \/ \E c \in {"c1"} : deleteContact(c, OverlapInFlight)
    \/ \E i \in DOMAIN pending : \E a \in DeleteAnswers(FALSE) : DeleteContactResumed(i, a)

\* every page, one invalid and one valid value per field, every answer
Spec == Init /\ [][Next]_vars

\* the login and signup forms with the values that reach every branch of
\* their validators; the remote service fails every request
SpecForms == Init /\ [][NextForms]_vars

\* the dashboard of a signed-in visitor whose contact fetches overlap
SpecOverlap == InitDashboard /\ [][NextOverlap]_vars

\* the dashboard of a signed-in visitor, with its every handler, until the
\* document is left
SpecDashboard == InitDashboard /\ [][NextDashboard]_vars

\* the add-contact form of a signed-in visitor
SpecContacts == InitDashboard /\ [][NextContacts]_vars

(***************************************************************************)
(* Properties of the signup form                                           *)
(***************************************************************************)
\* the five password predicates of signup.js, each written out
LongEnough(pw)   == Len(pw) >= 8
HasUpper(pw)     == \E k \in 1..Len(pw) : pw[k] \in Upper
HasLower(pw)     == \E k \in 1..Len(pw) : pw[k] \in Lower
HasDigit(pw)     == \E k \in 1..Len(pw) : pw[k] \in Digit
HasSpecial(pw)   == \E k \in 1..Len(pw) : pw[k] \notin (Upper \cup Lower \cup Digit)

MeetsAllFive(pw) ==
    LongEnough(pw) /\ HasUpper(pw) /\ HasLower(pw) /\ HasDigit(pw) /\ HasSpecial(pw)

FlagsOf(pw) ==
    [length |-> LongEnough(pw), uppercase |-> HasUpper(pw), lowercase |-> HasLower(pw),
     number |-> HasDigit(pw), special |-> HasSpecial(pw)]

One(b) == IF b THEN 1 ELSE 0

TrueFlags(reqs) ==
    One(reqs.length) + One(reqs.uppercase) + One(reqs.lowercase) + One(reqs.number)
        + One(reqs.special)

\* a step of the signup page that hands a registration request to fetch
RegisterIssued ==
    /\ page = "signup"
    /\ page' = "signup"
    /\ Len(pending') = Len(pending) + 1
    /\ pending'[Len(pending')].endpoint = "/auth/register"
    /\ pending'[Len(pending')].method = "POST"

\* C1: a registration request (POST /auth/register) is sent only when the
\* password is non-empty, meets all five requirements, equals the
\* confirmation, and the validation error set is empty.
C1_RegisterOnlyWhenValid ==
    [][RegisterIssued =>
          /\ inputs["password"] # <<>>
          /\ MeetsAllFive(inputs["password"])
          /\ inputs["password"] = inputs["confirmPassword"]
          /\ DOMAIN validationErrors = {}]_vars

C1_Witness ==
    /\ page = "signup"
    /\ pending # <<>>
    /\ pending[1].endpoint = "/auth/register"
    /\ pending[1].body.password = PwStrong

\* C2: the strength score is always one of 0, 20, 40, 60, 80, 100 and equals
\* 20 times the number of requirement flags that are true; it never changes
\* in a step that leaves the flags as they were.
C2_ScoreFollowsFlags ==
    /\ [](/\ passwordStrengthScore \in {0, 20, 40, 60, 80, 100}
          /\ passwordStrengthScore = 20 * TrueFlags(passwordRequirements))
    /\ [][passwordStrengthScore' # passwordStrengthScore
             => passwordRequirements' # passwordRequirements]_vars

C2_Witness ==
    /\ passwordStrengthScore = 80
    /\ TrueFlags(passwordRequirements) = 4
    /\ ~passwordRequirements.special

\* an input event that changes the password field
PasswordInput ==
    /\ page = "signup"
    /\ page' = "signup"
    /\ inputs'["password"] # inputs["password"]

\* C3 as stated: after every input event on the password field, the empty
\* string included, each requirement flag equals its predicate evaluated on
\* the current password.
C3_FlagsAlwaysFresh ==
    [][PasswordInput => passwordRequirements' = FlagsOf(inputs'["password"])]_vars

\* C3: after an input event that leaves the password field non-empty, each
\* requirement flag equals its predicate evaluated on the current password
\* and the score is 20 times their number; after an input event that
\* empties the field, flags and score stay what they were for the previous
\* password.
C3_FlagsFreshUnlessEmptied ==
    [][PasswordInput =>
          IF inputs'["password"] # <<>>
          THEN /\ passwordRequirements' = FlagsOf(inputs'["password"])
               /\ passwordStrengthScore' = 20 * TrueFlags(FlagsOf(inputs'["password"]))
          ELSE /\ passwordRequirements' = passwordRequirements
               /\ passwordStrengthScore' = passwordStrengthScore]_vars

C3_Witness ==
    /\ page = "signup"
    /\ inputs["password"] = <<>>
    /\ passwordRequirements.length
    /\ passwordStrengthScore = 100
    /\ "password" \in DOMAIN validationErrors

\* C4 as stated: whenever the password changes while the confirmation is
\* non-empty, the confirmation's validation result afterwards reflects the
\* comparison with the current password: 'Passwords do not match' is
\* recorded exactly when the two differ.
C4_ConfirmRevalidated ==
    [][(PasswordInput /\ inputs'["confirmPassword"] # <<>>) =>
          (("confirmPassword" \in DOMAIN validationErrors'
               /\ validationErrors'["confirmPassword"] = "Passwords do not match")
           <=> inputs'["confirmPassword"] # inputs'["password"])]_vars

\* whether the field's current value fails the rules of its validator
FailsValidation(f) ==
    CASE f \in {"firstName", "lastName"} ->
            trim(inputs[f]) = <<>> \/ Len(trim(inputs[f])) < 2
      [] f = "email" ->
            trim(inputs[f]) = <<>> \/ ~isValidEmail(inputs[f])
      [] f = "phone" ->
            inputs[f] # <<>> /\ ~isValidPhone(inputs[f])
      [] f = "password" ->
            inputs[f] = <<>> \/ ~MeetsAllFive(inputs[f])
      [] f = "confirmPassword" ->
            \/ inputs[f] = <<>>
            \/ inputs[f] # inputs["password"]
            \/ passwordStrengthScore < 100
      [] OTHER -> FALSE

\* C5 as stated: in every state of the signup form, the initial one
\* included, a field is a key of the validation error set if and only if its
\* current value fails its validator.
C5_KeyIffFails ==
    page = "signup" =>
        \A f \in SignupFields : f \in DOMAIN validationErrors <=> FailsValidation(f)

\* C5: for every field other than the confirmation, a key of the validation
\* error set names a field whose current value fails its validator, and a
\* field whose current value is non-empty and fails its validator is a key;
\* an empty field that was never validated fails without being a key.
C5_KeysOfValidatedFields ==
    page = "signup" =>
        \A f \in SignupFields \ {"confirmPassword"} :
            /\ f \in DOMAIN validationErrors => FailsValidation(f)
            /\ (FailsValidation(f) /\ inputs[f] # <<>>) => f \in DOMAIN validationErrors

C5_Witness ==
    /\ page = "signup"
    /\ inputs["email"] = EmailBad
    /\ "email" \in DOMAIN validationErrors
    /\ inputs["firstName"] = NameAl
    /\ "firstName" \notin DOMAIN validationErrors
    /\ inputs["lastName"] = <<>>
    /\ "lastName" \notin DOMAIN validationErrors

\* a validation of the confirmation field: its 'input' or its 'blur' event
ConfirmValidated ==
    \/ SignupBlur("confirmPassword")
    \/ \E v \in SignupValues("confirmPassword", TRUE) : SignupInput("confirmPassword", v)

HasError(errors, f, message) == f \in DOMAIN errors /\ errors[f] = message

\* C6: validating the confirmation applies its rules in priority order:
\* empty gives 'Please confirm your password'; otherwise a value different
\* from the password gives 'Passwords do not match'; otherwise a score below
\* 100 gives 'Please create a stronger password first'; otherwise the field
\* has no error.
C6_ConfirmPriority ==
    [][ConfirmValidated =>
          IF inputs'["confirmPassword"] = <<>>
          THEN HasError(validationErrors', "confirmPassword", "Please confirm your password")
          ELSE IF inputs'["confirmPassword"] # inputs'["password"]
          THEN HasError(validationErrors', "confirmPassword", "Passwords do not match")
          ELSE IF passwordStrengthScore' < 100
          THEN HasError(validationErrors', "confirmPassword",
                        "Please create a stronger password first")
          ELSE "confirmPassword" \notin DOMAIN validationErrors']_vars

C6_Witness ==
    /\ page = "signup"
    /\ inputs["confirmPassword"] = PwGood
    /\ inputs["password"] = PwGood
    /\ passwordStrengthScore = 80
    /\ HasError(validationErrors, "confirmPassword",
                "Please create a stronger password first")

\* the condition under which the signup form counts as valid
Submittable ==
    /\ trim(inputs["firstName"]) # <<>>
    /\ trim(inputs["lastName"]) # <<>>
    /\ trim(inputs["email"]) # <<>>
    /\ inputs["password"] # <<>>
    /\ inputs["confirmPassword"] # <<>>
    /\ inputs["password"] = inputs["confirmPassword"]
    /\ passwordStrengthScore = 100
    /\ DOMAIN validationErrors = {}

\* a validation of any signup field
FieldValidated ==
    \E f \in SignupFields :
        \/ SignupBlur(f)
        \/ \E v \in SignupValues(f, TRUE) : SignupInput(f, v)

\* C7: isValidForm is true exactly when the trimmed first name, last name
\* and email are non-empty, password and confirmation are non-empty and
\* equal, the score is exactly 100 and the validation error set is empty:
\* a submit sends the request exactly then, and a validation enables the
\* submit control exactly then.
C7_ValidFormExactly ==
    [][/\ handleSignup(FormsInFlight) => (RegisterIssued <=> Submittable)
       /\ FieldValidated => (~btnDisabled' <=> Submittable')]_vars

C7_Witness ==
    /\ page = "signup"
    /\ toasts = <<Toast("Please fix all errors before submitting", "error")>>
    /\ trim(inputs["firstName"]) # <<>>
    /\ trim(inputs["lastName"]) # <<>>
    /\ trim(inputs["email"]) # <<>>
    /\ inputs["password"] = PwStrong
    /\ inputs["confirmPassword"] = PwStrong
    /\ passwordStrengthScore = 100
    /\ DOMAIN validationErrors = {"phone"}

\* C8 as stated: after every validation the submit control is enabled if
\* and only if the form is submittable, and no other step of the signup page
\* turns the control on while the form is not submittable.
C8_EnabledOnlyWhenSubmittable ==
    [][(page = "signup" /\ page' = "signup") =>
          /\ FieldValidated => (~btnDisabled' <=> Submittable')
          /\ (~FieldValidated /\ btnDisabled /\ ~btnDisabled') => Submittable']_vars

(***************************************************************************)
(* Properties of the three forms                                           *)
(***************************************************************************)
\* whether a login field's current value fails the rules of its validator
LoginFails(f) ==
    IF f = "email"
    THEN trim(inputs["email"]) = <<>> \/ ~isValidEmail(trim(inputs["email"]))
    ELSE inputs["password"] = <<>>

\* whether an add-contact field's current value fails the rules of its validator
ContactFails(f) ==
    CASE f = "contactName" ->
            trim(inputs[f]) = <<>> \/ Len(trim(inputs[f])) < 2
      [] f = "contactPhone" ->
            trim(inputs[f]) = <<>> \/ ~isContactPhone(trim(inputs[f]))
      [] f = "contactEmail" ->
            trim(inputs[f]) # <<>> /\ ~isValidEmail(trim(inputs[f]))
      [] f = "contactRelationship" -> inputs[f] = <<>>
      [] OTHER -> FALSE

\* the step issued no request and left exactly one failure notification
RejectedWithOneToast ==
    /\ pending' = pending
    /\ Len(toasts') = 1
    /\ toasts'[1].type = "error"

RequestIssued == Len(pending') = Len(pending) + 1

\* a login submit displays the outcome of both validators and sends the
\* request only if both pass
LoginSubmitChecked ==
    /\ \A f \in LoginFields : f \in DOMAIN errorShown' <=> LoginFails(f)
    /\ IF \E f \in LoginFields : LoginFails(f)
       THEN RejectedWithOneToast ELSE RequestIssued

\* an add-contact submit of a signed-in user displays the outcome of the four
\* validators and sends the request only if all pass
ContactSubmitChecked ==
    /\ \A f \in ContactFields \ {"contactPriority"} :
           f \in DOMAIN errorShown' <=> ContactFails(f)
    /\ IF \E f \in ContactFields : ContactFails(f)
       THEN RejectedWithOneToast ELSE RequestIssued

CarriesMessage(a) == a.kind = "http_error" /\ a.hasDetail /\ a.detail # <<>>

\* the message of the error that a failed request raises
RaisedMessage(a) ==
    IF CarriesMessage(a) THEN a.detail
    ELSE IF a.kind = "http_error" THEN RequestFailed ELSE FailedToFetch

OneErrorToast(message) == toasts' = <<[message |-> message, type |-> "error"]>>

C11_FailedSubmitKeepsForm ==
    [][\A i \in 1..MaxInFlight :
         /\ \A a \in AuthAnswers(FALSE) :
              ((LoginResumed(i, a) \/ SignupResumed(i, a)) /\ a.kind # "ok") =>
                  (inputs' = inputs /\ store' = store /\ ~btnDisabled')
         /\ \A a \in CreatedAnswers(FALSE) :
              (AddContactResumed(i, a) /\ a.kind # "ok") =>
                  (inputs' = inputs /\ store' = store /\ ~btnDisabled')]_vars

C11_Witness ==
    /\ page = "signup"
    /\ toasts = <<Toast("Bad request", "error")>>
    /\ inputs["password"] = PwStrong
    /\ inputs["email"] = EmailOk
    /\ pending = <<>>
    /\ ~btnDisabled
    /\ store = EmptyStore

\* C12: in every state reachable through login success, signup success and
\* logout, the key isAuthenticated holds 'true' if and only if the key
\* userData is present.
C12_FlagIffSessionUser ==
    ("isAuthenticated" \in DOMAIN store /\ store["isAuthenticated"] = "true")
        <=> "userData" \in DOMAIN store

C12_Witness ==
    /\ page = "dashboard"
    /\ "isAuthenticated" \in DOMAIN store
    /\ store["isAuthenticated"] = "true"
    /\ "userData" \in DOMAIN store
    /\ store["userData"] = [json |-> User1]

\* the session that one successful answer describes
SessionOf(data) ==
    [k \in {"userData", "userEmail", "userId", "isAuthenticated"}
            \cup (IF data.access_token # "" THEN {"authToken"} ELSE {}) |->
        CASE k = "userData"        -> [json |-> data.user]
          [] k = "userEmail"       -> data.user.email
          [] k = "userId"          -> data.user._id
          [] k = "isAuthenticated" -> "true"
          [] k = "authToken"       -> data.access_token]

\* C13 as stated: after the success handler of a login or a signup, the five
\* keys of the session store all come from that one response: authToken is
\* the response's access_token, or absent when the response carries none,
\* whatever the store held before.
C13_StoreFullyRewritten ==
    [][\A i \in 1..MaxInFlight : \A a \in AuthAnswers(FALSE) :
         ((LoginResumed(i, a) \/ SignupResumed(i, a)) /\ a.kind = "ok") =>
             store' = SessionOf(a.data)]_vars

SessionKeys == {"userData", "userEmail", "userId", "isAuthenticated", "authToken"}

\* a step that runs Utils.logout(): the dashboard's logout, the add-contact
\* submit that finds no user, or the logout of another tab
LogoutStep ==
    \/ logout
    \/ handleAddContact(DashInFlight) /\ "userData" \notin DOMAIN store
    \/ LogoutElsewhere

\* C14: logout, from any session state, removes the five persisted keys
\* userData, userEmail, userId, isAuthenticated and authToken, and
\* isAuthenticated() is false afterwards.
C14_LogoutClearsSession ==
    [][LogoutStep =>
          /\ SessionKeys \cap DOMAIN store' = {}
          /\ ~("isAuthenticated" \in DOMAIN store' /\ store'["isAuthenticated"] = "true")]_vars

C14_Witness ==
    /\ page = "login"
    /\ SessionKeys \cap DOMAIN store = {}
    /\ pending = <<>>

\* a step that hands a new request to fetch: the request is the last of the
\* requests in flight afterwards
IssuesRequest ==
    /\ pending' # pending
    /\ pending' # <<>>
    /\ Len(pending') >= Len(pending)

\* C15: every request issued by the API client carries the header
\* Authorization: Bearer <token> with the token that the session store holds
\* at that moment, and no Authorization header when the store holds none.
C15_RequestsCarryToken ==
    [][IssuesRequest =>
          pending'[Len(pending')].authorization =
              (IF "authToken" \in DOMAIN store
               THEN "Bearer " \o store["authToken"] ELSE "")]_vars

C15_Witness ==
    /\ page = "dashboard"
    /\ "authToken" \in DOMAIN store
    /\ store["authToken"] = "t1"
    /\ Len(pending) = 1
    /\ pending[1].endpoint = "/contacts/"
    /\ pending[1].method = "POST"
    /\ pending[1].authorization = "Bearer t1"

(***************************************************************************)
(* Properties of the dashboard                                             *)
(***************************************************************************)
\* C16 as stated: the API client reports failure exactly for non-2xx answers
\* and transport errors. Every 2xx answer to DELETE /contacts/{contactId},
\* the one without a body included, is a success: deleteContact shows its
\* success notification and reloads the contact list; every other answer
\* makes it show its failure notification.
C16_TwoHundredIsSuccess ==
    [][\A i \in 1..2 : \A a \in DeleteAnswers(TRUE) :
         DeleteContactResumed(i, a) =>
             IF a.kind \in {"ok", "ok_no_body"}
             THEN /\ toasts' = <<[message |-> "Contact deleted successfully",
                                  type |-> "success"]>>
                  /\ "userData" \in DOMAIN store =>
                        /\ pending' # <<>>
                        /\ pending'[Len(pending')].method = "GET"
                        /\ pending'[Len(pending')].endpoint = "/contacts/user/u1"
             ELSE toasts' = <<[message |-> "Failed to delete contact", type |-> "error"]>>]_vars

RECURSIVE SingleSpaced(_)
\* the name with every run of spaces reduced to one space
SingleSpaced(s) ==
    IF Len(s) < 2 THEN s
    ELSE IF s[1] = " " /\ s[2] = " " THEN SingleSpaced(Tail(s))
    ELSE <<s[1]>> \o SingleSpaced(Tail(s))

HasSpace(s) == \E k \in 1..Len(s) : s[k] = " "

\* a step in which the add-contact submit hands its request to fetch
ContactIssued ==
    /\ handleAddContact(ContactsInFlight)
    /\ Len(pending') = Len(pending) + 1

\* C17: the add-contact request of a validated full name carries as firstName
\* the first non-empty space-separated token and as lastName the remaining
\* non-empty tokens joined by single spaces, 'N/A' when there is exactly one
\* token; it is never sent with an empty firstName or lastName.
C17_NameSplit ==
    [][ContactIssued =>
          LET name == SingleSpaced(trim(inputs["contactName"]))
              body == pending'[Len(pending')].body
          IN  /\ body.firstName # <<>>
              /\ body.lastName # <<>>
              /\ ~HasSpace(body.firstName)
              /\ IF HasSpace(name)
                 THEN body.firstName \o <<" ">> \o body.lastName = name
                 ELSE body.firstName = name /\ body.lastName = <<"N", "/", "A">>]_vars

C17_Witness ==
    /\ page = "dashboard"
    /\ inputs["contactName"] = NameTwoGaps
    /\ Len(pending) = 1
    /\ pending[1].endpoint = "/contacts/"
    /\ pending[1].body.firstName = <<"A", "l">>
    /\ pending[1].body.lastName = <<"L", "e", "e">>

\* a step of dashboard code that reads the SessionUser: the add-contact
\* submit, a refresh of the activity list, a quick action logging its
\* activity, and the reload of the contact list after an add or a delete
NeedsSessionUser ==
    \/ handleAddContact(DashInFlight)
    \/ refreshActivity(DashInFlight)
    \/ \E type \in QuickActions : QuickAction(type, DashInFlight)
    \/ \E i \in 1..2 :
          \/ AddContactResumed(i, OkAnswer([_id |-> "c1"]))
          \/ DeleteContactResumed(i, OkAnswer(NoData))

\* C18 as stated: whenever dashboard code that needs the SessionUser finds
\* none in the store, it forces a logout and a redirect to the entry view at
\* once, and issues no API request.
C18_ExpiryForcesLogout ==
    [][("userData" \notin DOMAIN store /\ NeedsSessionUser) =>
          /\ page' = "login"
          /\ SessionKeys \cap DOMAIN store' = {}
          /\ ~IssuesRequest]_vars

\* the answers that make POST /activities/ fail
ActivityFailures == {a \in CreatedAnswers(TRUE) : a.kind # "ok"} \cup {NoBodyAnswer}

\* C19: a failure of the activity-logging request is swallowed: it shows no
\* notification, and the enclosing action (add-contact, delete-contact,
\* share location, emergency alert, check-in) goes on exactly as after a
\* logged activity: add-contact and the quick actions reload the activity
\* list, add-contact then re-enables its submit control.
C19_ActivityFailureSwallowed ==
    [][\A i \in 1..2 : \A a \in ActivityFailures :
         AddActivityResumed(i, a) =>
             /\ toasts' = <<>>
             /\ AddActivityResumed(i, OkAnswer([_id |-> "c1"]))
             /\ (/\ pending[i].cont \in {"handleAddContact/addActivity", "quick/addActivity"}
                 /\ "userData" \in DOMAIN store) =>
                    /\ Len(pending') = Len(pending)
                    /\ pending'[Len(pending')].method = "GET"
                    /\ pending'[Len(pending')].endpoint = "/activities/user/u1"
             /\ (/\ pending[i].cont = "handleAddContact/addActivity"
                 /\ "userData" \notin DOMAIN store) => ~btnDisabled']_vars

C19_Witness ==
    /\ page = "dashboard"
    /\ toasts = <<>>
    /\ Len(pending) = 1
    /\ pending[1].cont = "handleAddContact/loadRecentActivity"
    /\ btnDisabled
    /\ contactsList = <<"c1">>

(***************************************************************************)
(* Properties of the signup password field                                 *)
(***************************************************************************)
\* the requirements in their fixed order, each with whether the password
\* misses it and the words that name it
RequirementsMissed(pw) ==
    SelectSeq(<<[missed |-> ~LongEnough(pw), words |-> "at least 8 characters"],
                [missed |-> ~HasUpper(pw),   words |-> "one uppercase letter"],
                [missed |-> ~HasLower(pw),   words |-> "one lowercase letter"],
                [missed |-> ~HasDigit(pw),   words |-> "one number"],
                [missed |-> ~HasSpecial(pw), words |-> "one special character"]>>,
              LAMBDA r : r.missed)

RECURSIVE CommaSeparated(_)
CommaSeparated(items) ==
    IF items = <<>> THEN ""
    ELSE items[1].words
           \o (IF Len(items) = 1 THEN "" ELSE ", " \o CommaSeparated(Tail(items)))

\* a validation of the password field: its 'input' or its 'blur' event
PasswordValidated ==
    \/ SignupBlur("password")
    \/ \E v \in SignupValues("password", TRUE) : SignupInput("password", v)

\* C20: validating the password field leaves, for the empty password,
\* 'Password is required' with the requirement flags not recomputed; for a
\* non-empty password missing some requirement, 'Password must contain '
\* followed by exactly the missing requirements in the order length,
\* uppercase, lowercase, number, special, comma-separated; and for a password
\* meeting all five, no password entry.
C20_PasswordError ==
    [][PasswordValidated =>
          LET pw == inputs'["password"]
          IN  IF pw = <<>>
              THEN /\ HasError(validationErrors', "password", "Password is required")
                   /\ passwordRequirements' = passwordRequirements
              ELSE IF RequirementsMissed(pw) # <<>>
              THEN HasError(validationErrors', "password",
                            "Password must contain " \o CommaSeparated(RequirementsMissed(pw)))
              ELSE "password" \notin DOMAIN validationErrors']_vars

C20_Witness ==
    /\ page = "signup"
    /\ inputs["password"] = PwWeak
    /\ HasError(validationErrors, "password",
                "Password must contain at least 8 characters, one uppercase letter, one number, one special character")

(***************************************************************************)
(* C21: the frame of validateField                                         *)
(***************************************************************************)
\* a validation of the field f: its 'input' or its 'blur' event
ValidationOf(f) ==
    \/ SignupBlur(f)
    \/ \E v \in SignupValues(f, TRUE) : SignupInput(f, v)

\* the entry of the field g is the same in the two error sets
SameEntry(before, after, g) ==
    /\ (g \in DOMAIN after) = (g \in DOMAIN before)
    /\ g \in DOMAIN before => after[g] = before[g]

\* C21: validateField(name, value) changes at most the entry of that one
\* field in the validation error set: the entry of every other field is left
\* as it was (present with the same message, or absent), and the stored
\* password requirements and score are unchanged unless name is password.
C21_OnlyOwnEntry ==
    [][\A f \in SignupFields :
          ValidationOf(f) =>
              /\ \A g \in SignupFields \ {f} :
                     SameEntry(validationErrors, validationErrors', g)
              /\ f # "password" =>
                     /\ passwordRequirements' = passwordRequirements
                     /\ passwordStrengthScore' = passwordStrengthScore]_vars

\* the password was retyped to equal the confirmation, and the mismatch
\* recorded for the confirmation earlier is still there, next to another
\* field's entry
C21_Witness ==
    /\ page = "signup"
    /\ inputs["password"] = PwStrong
    /\ inputs["confirmPassword"] = PwStrong
    /\ HasError(validationErrors, "confirmPassword", "Passwords do not match")
    /\ "email" \in DOMAIN validationErrors
    /\ "password" \notin DOMAIN validationErrors
    /\ passwordStrengthScore = 100

(***************************************************************************)
(* C22: the submit control while a register request is in flight           *)
(***************************************************************************)
\* the register requests that have been sent and not yet answered
RegistersInFlight ==
    {i \in DOMAIN pending : /\ pending[i].endpoint = "/auth/register"
                            /\ pending[i].cont = "handleSignup"}

\* C22: on the signup page, while a register request is in flight the submit
\* control is disabled, whatever 'input' and 'blur' events have come in since
\* the request was sent, so at most one register request is outstanding.
C22_OneRegisterInFlight ==
    (page = "signup" /\ RegistersInFlight # {}) =>
        /\ btnDisabled
        /\ Cardinality(RegistersInFlight) <= 1

(***************************************************************************)
(* C23: overlapping fetches of the contact list                            *)
(***************************************************************************)
\* the fetches of the contact list that are not yet answered
ContactFetches ==
    {i \in DOMAIN pending :
        pending[i].cont \in {"loadContacts", "handleAddContact/loadContacts",
                             "deleteContact/loadContacts"}}

\* the answer of the page load's loadContacts() arrives when the list has
\* already been rendered and no other fetch of the list is outstanding. That
\* fetch is the first one the document issued, so the rendered list is the
\* answer to a fetch issued after it.
StaleContactsArrive ==
    /\ contactsList # Unrendered
    /\ \E i \in ContactFetches :
          /\ ContactFetches = {i}
          /\ pending[i].cont = "loadContacts"
          /\ \E a \in ListAnswers(ContactLists, FALSE) : LoadContactsResumed(i, a)

\* C23: when fetches of the contact list overlap, once all have completed
\* the rendered list is the answer to the most recently issued fetch, in
\* whatever order the answers arrive: the answer to the page load's fetch,
\* arriving last after the answer to a later fetch (the refresh of an added or
\* deleted contact) has been rendered, does not replace the rendered list.
C23_LatestFetchRendered ==
    [][StaleContactsArrive => contactsList' = contactsList]_vars

====
